---- MODULE Spec2Model ----
(***************************************************************************)
(* Storage utilities of the azure command line tool (lib/util/storage):    *)
(* configuration resolution, the REST funnel that bounds concurrent        *)
(* storage calls, the operation dispatcher performStorageOperation, the    *)
(* service factory, the operation time out helper and the progress         *)
(* indicator.                                                              *)
(*                                                                         *)
(* JavaScript strings whose characters the code inspects or converts       *)
(* (configuration values given to parseInt, operation types given to       *)
(* toLowerCase) are sequences of one-character strings.  Values that may   *)
(* be null, undefined, NaN or a number are tagged records.                 *)
(***************************************************************************)
EXTENDS Integers, Sequences, FiniteSets, TLC

VARIABLES
    cfg,              \* the configuration store read by utils.readConfig()
    cpuCount,         \* os.cpus().length
    restFunnel,       \* module variable restFunnel (the funnel and its state)
    operationTimeout, \* module variable operationTimeout
    pc,               \* per call of performStorageOperation: where it stands
    op,               \* per call: the storageOperation argument it was given
    resolved,         \* per call: a service handle was created for it
    invoked,          \* per call: how often the service method was invoked
    result,           \* per call: what the caller received
    optionsArg,       \* setOperationTimeout: the options object as passed
    options,          \* setOperationTimeout: the options object after the call
    callArgs,         \* per call: the options object among its arguments
    invokedWith,      \* per call: the options the service method was given
    outcomeOf,        \* per call: how its service method ended
    phases,           \* per call: the phases it has entered, in order
    waited,           \* the calls the funnel has queued
    env,              \* process.env.AZURE_STORAGE_CONNECTION_STRING
    serviceCall,      \* the last call of a get...Service and what it gave
    progress,         \* module variable progress
    indicators        \* the progress indicators cli.progress has created

\* The variables of the dispatcher's history, of the service factory and of
\* the progress indicator.
historyVars == <<callArgs, invokedWith, outcomeOf, phases, waited>>
factoryVars == <<env, serviceCall>>
progressVars == <<progress, indicators>>

vars == <<cfg, cpuCount, restFunnel, operationTimeout, pc, op, resolved,
          invoked, result, optionsArg, options, callArgs, invokedWith,
          outcomeOf, phases, waited, env, serviceCall, progress, indicators>>

---------------------------------------------------------------------------
(* Bounds of the model *)

MaxLen == 2
MaxCpu == 4
NumCalls == 3
MaxIndicators == 3

Calls == 1..NumCalls

---------------------------------------------------------------------------
(* JavaScript values *)

JsNull == [tag |-> "null", val |-> 0]
JsUndefined == [tag |-> "undefined", val |-> 0]
JsNaN == [tag |-> "NaN", val |-> 0]
JsNumber(n) == [tag |-> "number", val |-> n]

JsAbsent == [tag |-> "undefined", str |-> <<>>]
JsString(s) == [tag |-> "string", str |-> s]

RECURSIVE StringsUpTo(_, _)
StringsUpTo(chars, n) ==
    IF n = 0 THEN {<<>>}
    ELSE LET shorter == StringsUpTo(chars, n - 1)
         IN shorter \cup {Append(s, ch) : s \in shorter, ch \in chars}

---------------------------------------------------------------------------
(* parseInt(value, 10) *)

IsWhiteSpace(ch) == ch = " "
IsDigit(ch) == ch \in {"0", "1", "2", "3", "4", "5", "6", "7", "8", "9"}
DigitValue(ch) ==
    CASE ch = "0" -> 0 [] ch = "1" -> 1 [] ch = "2" -> 2 [] ch = "3" -> 3
      [] ch = "4" -> 4 [] ch = "5" -> 5 [] ch = "6" -> 6 [] ch = "7" -> 7
      [] ch = "8" -> 8 [] ch = "9" -> 9

\* ToString of the argument: an absent key reads as undefined, whose string
\* form is "undefined".
ToStringArg(v) ==
    IF v.tag = "undefined"
    THEN <<"u", "n", "d", "e", "f", "i", "n", "e", "d">>
    ELSE v.str

RECURSIVE TrimLeft(_)
TrimLeft(s) ==
    IF s # <<>> /\ IsWhiteSpace(Head(s)) THEN TrimLeft(Tail(s)) ELSE s

\* The longest prefix of s made of decimal digits.
RECURSIVE DigitPrefix(_)
DigitPrefix(s) ==
    IF s # <<>> /\ IsDigit(Head(s))
    THEN <<Head(s)>> \o DigitPrefix(Tail(s))
    ELSE <<>>

RECURSIVE DigitsValue(_, _)
DigitsValue(s, acc) ==
    IF s = <<>> THEN acc
    ELSE DigitsValue(Tail(s), 10 * acc + DigitValue(Head(s)))

parseInt10(v) ==
    LET s == TrimLeft(ToStringArg(v))
        signed == s # <<>> /\ Head(s) \in {"-", "+"}
        sign == IF s # <<>> /\ Head(s) = "-" THEN -1 ELSE 1
        digits == DigitPrefix(IF signed THEN Tail(s) ELSE s)
    IN IF digits = <<>> THEN JsNaN
       ELSE JsNumber(sign * DigitsValue(digits, 0))

isNaN(n) == n.tag = "NaN"

---------------------------------------------------------------------------
(* Configuration resolution *)

asyncTasksPerCoreMultiplier == 1

getDefaultRestConcurrency(cpus) == cpus * asyncTasksPerCoreMultiplier

\* A variant of UseDefaultConcurrency that forgets the zero case.
UseDefaultConcurrency_NaNOnly(definedConcurrency) ==
    isNaN(definedConcurrency)

\* The condition under which the configured value is not used.
UseDefaultConcurrency(definedConcurrency) ==
    isNaN(definedConcurrency) \/ definedConcurrency.val = 0

getRestConcurrency(config, cpus) ==
    LET definedConcurrency == parseInt10(config.azure_storage_concurrency)
    IN IF UseDefaultConcurrency(definedConcurrency)
       THEN getDefaultRestConcurrency(cpus)
       ELSE definedConcurrency.val

\* A variant of NoTimeoutOverride that lets negative values through.
NoTimeoutOverride_ZeroOnly(definedTimeout) ==
    isNaN(definedTimeout) \/ definedTimeout.val = 0

\* The condition under which the configured time out is not used.
NoTimeoutOverride(definedTimeout) ==
    isNaN(definedTimeout) \/ definedTimeout.val <= 0

getRestOperationTimeout(config) ==
    LET definedTimeout == parseInt10(config.azure_storage_timeout)
    IN IF NoTimeoutOverride(definedTimeout)
       THEN JsNull
       ELSE definedTimeout

---------------------------------------------------------------------------
(* Operation time out *)

NoOptions == <<>>

Options(camel, lower) ==
    [timeoutIntervalInMs |-> camel, timeoutintervalInMs |-> lower]

\* The guard of setOperationTimeout: the property it reads is spelled
\* timeoutintervalInMs, the one it writes timeoutIntervalInMs.
ShouldSetTimeout(o, timeout) ==
    /\ o.timeoutintervalInMs = JsUndefined
    /\ timeout # JsNull
    /\ ~isNaN(timeout)
    /\ timeout.val > 0

setOperationTimeoutOn(o, timeout) ==
    IF ShouldSetTimeout(o, timeout)
    THEN [o EXCEPT !.timeoutIntervalInMs = timeout]
    ELSE o

---------------------------------------------------------------------------
(* Operation types and service handles *)

UpperCaseLetters ==
    <<"A", "B", "C", "D", "E", "F", "G", "H", "I", "J", "K", "L", "M",
      "N", "O", "P", "Q", "R", "S", "T", "U", "V", "W", "X", "Y", "Z">>
LowerCaseLetters ==
    <<"a", "b", "c", "d", "e", "f", "g", "h", "i", "j", "k", "l", "m",
      "n", "o", "p", "q", "r", "s", "t", "u", "v", "w", "x", "y", "z">>

LowerChar(ch) ==
    IF \E i \in 1..Len(UpperCaseLetters) : UpperCaseLetters[i] = ch
    THEN LowerCaseLetters[CHOOSE i \in 1..Len(UpperCaseLetters) :
                              UpperCaseLetters[i] = ch]
    ELSE ch

\* A variant of toLowerCase that leaves the string as it is.
toLowerCase_Identity(s) == s

toLowerCase(s) == [i \in 1..Len(s) |-> LowerChar(s[i])]

OperationType ==
    [Blob |-> <<"b", "l", "o", "b">>,
     Queue |-> <<"q", "u", "e", "u", "e">>,
     Table |-> <<"t", "a", "b", "l", "e">>]

OperationTypes == {OperationType.Blob, OperationType.Queue, OperationType.Table}

\* typeof service[name] for the service object of the given (lower case)
\* type: each service has its own REST methods, a host property that is a
\* string, and the functions every object inherits.
TypeOfMember(type, name) ==
    CASE name = "listContainers" /\ type = OperationType.Blob -> "function"
      [] name = "listQueues" /\ type = OperationType.Queue -> "function"
      [] name = "queryTables" /\ type = OperationType.Table -> "function"
      [] name = "toString" -> "function"
      [] name = "host" -> "string"
      [] OTHER -> "undefined"

\* A variant of isFunction that accepts every defined member.
isFunction_AnyDefined(typeOfFunc) == typeOfFunc # "undefined"

isFunction(typeOfFunc) == typeOfFunc = "function"

\* !service[operation]: of the members modelled only a missing one is falsy.
IsFalsy(typeOfMember) == typeOfMember = "undefined"

---------------------------------------------------------------------------
(* Storage operations, results and errors *)

NullOperation == [tag |-> "null", type |-> JsAbsent, operation |-> ""]
UndefinedOperation == [tag |-> "undefined", type |-> JsAbsent, operation |-> ""]
NoOperation == [tag |-> "none", type |-> JsAbsent, operation |-> ""]

\* new StorageOperation(type, operation); operation "" stands for a missing
\* or empty operation name (storageOperation.operation || '').
StorageOperation(type, operation) ==
    [tag |-> "object", type |-> type, operation |-> operation]

NoError == [name |-> "", type |-> <<>>, operation |-> ""]
TypeError == [name |-> "TypeError", type |-> <<>>, operation |-> ""]
InvalidOperationType(type) ==
    [name |-> "Invalid azure operation type", type |-> type, operation |-> ""]
InvalidOperation(operation, type) ==
    [name |-> "Invalid operation", type |-> type, operation |-> operation]
RemoteError(e) == [name |-> e, type |-> <<>>, operation |-> ""]

Pending == [state |-> "pending", value |-> "undefined", error |-> NoError]
Returned(v) == [state |-> "returned", value |-> v, error |-> NoError]
Thrown(e) == [state |-> "thrown", value |-> "undefined", error |-> e]

\* What the service method can do once invoked.
MethodOutcomes ==
    {[ok |-> TRUE, value |-> "r1"], [ok |-> TRUE, value |-> "r2"],
     [ok |-> FALSE, value |-> "RemoteError"]}

---------------------------------------------------------------------------
(* The REST funnel: flows.funnel(max) of streamline.  A funnel with a      *)
(* positive max runs at most max guarded functions at a time and queues    *)
(* the others in arrival order; a funnel with a negative max does not      *)
(* limit anything and keeps no count.                                      *)

NoFunnel == [created |-> FALSE, max |-> 0, active |-> 0, queue |-> <<>>]

funnel(max) == [created |-> TRUE, max |-> max, active |-> 0, queue |-> <<>>]

IsUnlimited(f) == f.max < 0

\* while (active < max && queue.length > 0) _doOne(): the funnel after the
\* loop and the calls the loop started.
RECURSIVE Drain(_)
Drain(f) ==
    IF f.active < f.max /\ f.queue # <<>>
    THEN LET rest == Drain([f EXCEPT !.active = @ + 1, !.queue = Tail(@)])
         IN [funnel |-> rest.funnel,
             started |-> {Head(f.queue)} \cup rest.started]
    ELSE [funnel |-> f, started |-> {}]

\* fun(callback, fn) for call c.
FunnelEnter(f, c) ==
    IF IsUnlimited(f)
    THEN [funnel |-> f, started |-> {c}]
    ELSE Drain([f EXCEPT !.queue = Append(@, c)])

\* The callback the funnel gave to fn is called: the slot is given back and
\* the queue is drained.
FunnelLeave(f) ==
    IF IsUnlimited(f)
    THEN [funnel |-> f, started |-> {}]
    ELSE Drain([f EXCEPT !.active = @ - 1])

---------------------------------------------------------------------------
(* StorageUtil.init *)

StorageUtil_init ==
    /\ ~restFunnel.created
    /\ restFunnel' = funnel(getRestConcurrency(cfg, cpuCount))
    /\ operationTimeout' = getRestOperationTimeout(cfg)
    /\ UNCHANGED <<cfg, cpuCount, pc, op, resolved, invoked, result,
                   optionsArg, options>>
    /\ UNCHANGED <<historyVars, factoryVars, progressVars>>

---------------------------------------------------------------------------
(* StorageUtil.setOperationTimeout *)

setOperationTimeout(o) ==
    /\ optionsArg' = <<o>>
    /\ options' = <<setOperationTimeoutOn(o, operationTimeout)>>
    /\ UNCHANGED <<cfg, cpuCount, restFunnel, operationTimeout, pc, op,
                   resolved, invoked, result>>
    /\ UNCHANGED <<historyVars, factoryVars, progressVars>>

---------------------------------------------------------------------------
(* StorageUtil.performStorageOperation *)

\* A variant of IsNullOperation that tests for undefined instead of null.
IsNullOperation_Undefined(storageOperation) ==
    storageOperation.tag = "undefined"

IsNullOperation(storageOperation) == storageOperation.tag = "null"

\* (storageOperation.type || '').toLowerCase()
NormalizedType(storageOperation) ==
    toLowerCase(IF storageOperation.type.tag = "undefined"
                THEN <<>>
                ELSE storageOperation.type.str)

\* A variant of HasService that finds a service for every type.
HasService_Always(type) == TRUE

\* The switch on the type: whether a service is created for it.
HasService(type) ==
    CASE type = OperationType.Blob -> TRUE
      [] type = OperationType.Table -> TRUE
      [] type = OperationType.Queue -> TRUE
      [] OTHER -> FALSE

\* A variant of IsInvalidOperation that accepts every operation name.
IsInvalidOperation_Never(type, operation) == FALSE

\* The check of service[operation].
IsInvalidOperation(type, operation) ==
    \/ IsFalsy(TypeOfMember(type, operation))
    \/ ~isFunction(TypeOfMember(type, operation))

\* The part of performStorageOperation that runs before the funnel is
\* entered: "return" for the null operation, "throw" with the error, or
\* "dispatch".
Validate(storageOperation) ==
    IF IsNullOperation(storageOperation)
    THEN [step |-> "return", error |-> NoError, resolved |-> FALSE]
    ELSE IF storageOperation.tag # "object"
    THEN [step |-> "throw", error |-> TypeError, resolved |-> FALSE]
    ELSE LET type == NormalizedType(storageOperation)
             operation == storageOperation.operation
         IN IF ~HasService(type)
            THEN [step |-> "throw", error |-> InvalidOperationType(type),
                  resolved |-> FALSE]
            ELSE IF IsInvalidOperation(type, operation)
            THEN [step |-> "throw",
                  error |-> InvalidOperation(operation, type),
                  resolved |-> TRUE]
            ELSE [step |-> "dispatch", error |-> NoError, resolved |-> TRUE]

\* The phases of a call of performStorageOperation, named after the
\* lines it has reached: the null test and the reading of type and
\* operation, the switch that creates the service, the check of
\* service[operation], the call of restFunnel, the call of the service
\* method, and the two ways the call of the method ends.
PhaseOrder ==
    <<"Validating", "ResolvingService", "BindingMethod", "AwaitingSlot",
      "Executing">>

\* The phases a call has entered when the part before the funnel is over.
ValidationPhases(storageOperation) ==
    LET v == Validate(storageOperation)
    IN CASE v.step = "return" -> <<"Validating">>
         [] v.step = "throw" /\ v.error = TypeError ->
                <<"Validating", "Failed">>
         [] v.step = "throw" /\ ~v.resolved ->
                <<"Validating", "ResolvingService", "Failed">>
         [] v.step = "throw" /\ v.resolved ->
                <<"Validating", "ResolvingService", "BindingMethod",
                  "Failed">>
         [] OTHER -> SubSeq(PhaseOrder, 1, 4)

\* A variant of ArgsForMethod that applies the operation time out to the
\* options before the service method is called.
ArgsForMethod_TimeoutInjected(operationArgs, timeout) ==
    setOperationTimeoutOn(operationArgs, timeout)

\* Array.prototype.slice.call(arguments).slice(2, arguments.length) and
\* service[operation].apply_(_, service, operationArgs): the options the
\* service method is called with.
ArgsForMethod(operationArgs, timeout) == operationArgs

\* The calls in started have their service method called.
InvokeStarted(started, args) ==
    /\ invoked' = [d \in Calls |->
                     IF d \in started THEN invoked[d] + 1 ELSE invoked[d]]
    /\ invokedWith' = [d \in Calls |->
                         IF d \in started
                         THEN <<ArgsForMethod(args[d][1], operationTimeout)>>
                         ELSE invokedWith[d]]

performStorageOperation(c, storageOperation, operationArgs) ==
    /\ restFunnel.created
    /\ pc[c] = "NotStarted"
    /\ op' = [op EXCEPT ![c] = storageOperation]
    /\ callArgs' = [callArgs EXCEPT ![c] = <<operationArgs>>]
    /\ LET v == Validate(storageOperation)
       IN /\ resolved' = [resolved EXCEPT ![c] = v.resolved]
          /\ CASE v.step = "return" ->
                    /\ pc' = [pc EXCEPT ![c] = "Returned"]
                    /\ result' = [result EXCEPT ![c] = Returned("undefined")]
                    /\ phases' = [phases EXCEPT
                                     ![c] = ValidationPhases(storageOperation)]
                    /\ UNCHANGED <<restFunnel, invoked, invokedWith, waited>>
               [] v.step = "throw" ->
                    /\ pc' = [pc EXCEPT ![c] = "Failed"]
                    /\ result' = [result EXCEPT ![c] = Thrown(v.error)]
                    /\ phases' = [phases EXCEPT
                                     ![c] = ValidationPhases(storageOperation)]
                    /\ UNCHANGED <<restFunnel, invoked, invokedWith, waited>>
               [] v.step = "dispatch" ->
                    LET entered == FunnelEnter(restFunnel, c)
                    IN /\ restFunnel' = entered.funnel
                       /\ pc' = [d \in Calls |->
                                   IF d \in entered.started THEN "Executing"
                                   ELSE IF d = c THEN "AwaitingSlot"
                                   ELSE pc[d]]
                       /\ phases' = [d \in Calls |->
                                       (IF d = c
                                        THEN ValidationPhases(storageOperation)
                                        ELSE phases[d])
                                       \o (IF d \in entered.started
                                           THEN <<"Executing">> ELSE <<>>)]
                       /\ waited' = IF c \in entered.started THEN waited
                                    ELSE waited \cup {c}
                       /\ InvokeStarted(entered.started, callArgs')
                       /\ UNCHANGED result
    /\ UNCHANGED <<cfg, cpuCount, operationTimeout, optionsArg, options,
                   outcomeOf, factoryVars, progressVars>>

\* A variant of Deliver that loses what the service method returned.
Deliver_ResultLost(outcome) ==
    IF outcome.ok THEN Returned("null")
    ELSE Thrown(RemoteError(outcome.value))

\* result = service[operation].apply_(...); return result: what the caller
\* of performStorageOperation gets when the service method has ended.
Deliver(outcome) ==
    IF outcome.ok THEN Returned(outcome.value)
    ELSE Thrown(RemoteError(outcome.value))

\* What the end of the service method of call c leaves in every variable
\* but the funnel: left is the funnel's answer to it.
MethodEnds(c, outcome, left) ==
    /\ pc' = [d \in Calls |->
                IF d = c
                THEN IF outcome.ok THEN "Completed" ELSE "Failed"
                ELSE IF d \in left.started THEN "Executing"
                ELSE pc[d]]
    /\ phases' = [d \in Calls |->
                    IF d = c
                    THEN Append(phases[d],
                                IF outcome.ok THEN "Completed" ELSE "Failed")
                    ELSE IF d \in left.started
                    THEN Append(phases[d], "Executing")
                    ELSE phases[d]]
    /\ InvokeStarted(left.started, callArgs)
    /\ outcomeOf' = [outcomeOf EXCEPT ![c] = <<outcome>>]
    /\ result' = [result EXCEPT ![c] = Deliver(outcome)]
    /\ UNCHANGED <<cfg, cpuCount, operationTimeout, op, resolved,
                   optionsArg, options, callArgs, waited, factoryVars,
                   progressVars>>

\* A variant of MethodCompletes in which a failure of the service method
\* reaches the caller without the funnel's callback being called.
MethodCompletes_FailureSkipsFunnel(c, outcome) ==
    /\ pc[c] = "Executing"
    /\ LET left == IF outcome.ok THEN FunnelLeave(restFunnel)
                   ELSE [funnel |-> restFunnel, started |-> {}]
       IN /\ restFunnel' = left.funnel
          /\ MethodEnds(c, outcome, left)

\* A variant of MethodCompletes that calls the service method a second
\* time when its first call has failed.
MethodCompletes_RetryOnFailure(c, outcome) ==
    /\ pc[c] = "Executing"
    /\ IF ~outcome.ok /\ invoked[c] = 1
       THEN /\ invoked' = [invoked EXCEPT ![c] = @ + 1]
            /\ UNCHANGED <<cfg, cpuCount, restFunnel, operationTimeout, pc,
                           op, resolved, result, optionsArg, options,
                           callArgs, invokedWith, outcomeOf, phases, waited,
                           factoryVars, progressVars>>
       ELSE LET left == FunnelLeave(restFunnel)
            IN /\ restFunnel' = left.funnel
               /\ MethodEnds(c, outcome, left)

\* The service method invoked for call c ends with the given outcome: the
\* guarded function ends, the funnel takes its slot back, starts the calls
\* that waited, and the caller of performStorageOperation gets the outcome.
MethodCompletes(c, outcome) ==
    /\ pc[c] = "Executing"
    /\ LET left == FunnelLeave(restFunnel)
       IN /\ restFunnel' = left.funnel
          /\ MethodEnds(c, outcome, left)

---------------------------------------------------------------------------
(* The service factory: getBlobService, getTableService, getQueueService   *)
(* and getStorageServiceSettings.  A connection string is the sequence of  *)
(* its <<key, value>> settings; '' is the empty sequence.                  *)

JsNullString == [tag |-> "null", str |-> <<>>]

\* !connectionString
IsNoString(v) == v.tag # "string" \/ v.str = <<>>

NoSettings == [tag |-> "null", name |-> "", key |-> ""]
Settings(name, key) == [tag |-> "settings", name |-> name, key |-> key]
InvalidConnectionString ==
    [tag |-> "InvalidConnectionString", name |-> "", key |-> ""]

\* The value of a key of a connection string, "" when the key is missing.
SettingOf(s, k) ==
    IF \E i \in 1..Len(s) : s[i][1] = k
    THEN s[CHOOSE i \in 1..Len(s) : s[i][1] = k][2]
    ELSE ""

\* StorageServiceSettings.createFromConnectionString: the account's name
\* and key of a connection string that has both, the parser's error for
\* the others.
createFromConnectionString(s) ==
    IF SettingOf(s, "AccountName") # "" /\ SettingOf(s, "AccountKey") # ""
    THEN Settings(SettingOf(s, "AccountName"), SettingOf(s, "AccountKey"))
    ELSE InvalidConnectionString

\* A variant of getStorageServiceSettings that prefers the environment's
\* connection string to the one it is given.
getStorageServiceSettings_EnvFirst(connectionString, environment) ==
    LET cs == IF IsNoString(environment) THEN connectionString
              ELSE environment
    IN [envRead |-> TRUE,
        settings |-> IF IsNoString(cs) THEN NoSettings
                     ELSE createFromConnectionString(cs.str)]

\* getStorageServiceSettings(connectionString), with the environment's
\* connection string as second argument: the settings it returns (or the
\* error createFromConnectionString throws) and whether process.env was
\* read.
getStorageServiceSettings(connectionString, environment) ==
    LET cs == IF IsNoString(connectionString) THEN environment
              ELSE connectionString
    IN [envRead |-> IsNoString(connectionString),
        settings |-> IF IsNoString(cs) THEN NoSettings
                     ELSE createFromConnectionString(cs.str)]

\* azure.create...Service() and azure.create...Service(name, key, uri):
\* the service made from the settings, with the credentials it uses.
ServiceOf(settings) ==
    CASE settings = NoSettings -> "default credentials"
      [] settings = InvalidConnectionString -> "none"
      [] OTHER -> "account credentials"

\* One of the three get...Service functions is called.
getService(kind, connectionString) ==
    /\ LET s == getStorageServiceSettings(connectionString, env)
       IN serviceCall' = <<[kind |-> kind,
                            connectionString |-> connectionString,
                            environment |-> env,
                            envRead |-> s.envRead,
                            settings |-> s.settings,
                            service |-> ServiceOf(s.settings)]>>
    /\ UNCHANGED <<cfg, cpuCount, restFunnel, operationTimeout, pc, op,
                   resolved, invoked, result, optionsArg, options, env,
                   historyVars, progressVars>>

getBlobService(connectionString) ==
    getService(OperationType.Blob, connectionString)

getTableService(connectionString) ==
    getService(OperationType.Table, connectionString)

getQueueService(connectionString) ==
    getService(OperationType.Queue, connectionString)

\* process.env.AZURE_STORAGE_CONNECTION_STRING = value
SetEnvironment(value) ==
    /\ env # value
    /\ env' = value
    /\ UNCHANGED <<cfg, cpuCount, restFunnel, operationTimeout, pc, op,
                   resolved, invoked, result, optionsArg, options,
                   serviceCall, historyVars, progressVars>>

---------------------------------------------------------------------------
(* StorageUtil.startProgress and StorageUtil.endProgress.  indicators is   *)
(* the sequence of the indicators cli.progress has created, each with its  *)
(* tips and the number of times its end() was called; progress is the      *)
(* index of the one the module variable refers to, NoProgress for null.    *)

NoProgress == 0

Indicator(tips) == [tips |-> tips, ended |-> 0]

\* A variant of EndActive that leaves the indicator running.
EndActive_Never(p, inds) == inds

\* if (progress !== null) { progress.end(); }
EndActive(p, inds) ==
    IF p # NoProgress THEN [inds EXCEPT ![p].ended = @ + 1] ELSE inds

\* startProgress(tips), once init has set cli: before that cli.progress
\* throws and nothing changes.
startProgress(tips) ==
    /\ restFunnel.created
    /\ Len(indicators) < MaxIndicators
    /\ indicators' = Append(EndActive(progress, indicators), Indicator(tips))
    /\ progress' = Len(indicators) + 1
    /\ UNCHANGED <<cfg, cpuCount, restFunnel, operationTimeout, pc, op,
                   resolved, invoked, result, optionsArg, options,
                   historyVars, factoryVars>>

endProgress ==
    /\ indicators' = EndActive(progress, indicators)
    /\ progress' = NoProgress
    /\ UNCHANGED <<cfg, cpuCount, restFunnel, operationTimeout, pc, op,
                   resolved, invoked, result, optionsArg, options,
                   historyVars, factoryVars>>

---------------------------------------------------------------------------
(* Inputs *)

ConfigChars == {" ", "-", "0", "8", "a"}

\* Every configuration value up to MaxLen characters, and the missing key.
ConfigValues ==
    {JsAbsent} \cup {JsString(s) : s \in StringsUpTo(ConfigChars, MaxLen)}

ConcurrencySamples ==
    {JsAbsent, JsString(<<"1">>), JsString(<<"2">>), JsString(<<"-", "1">>)}

TimeoutSamples == {JsAbsent, JsString(<<"8">>)}

Config(concurrency, timeout) ==
    [azure_storage_concurrency |-> concurrency,
     azure_storage_timeout |-> timeout]

DispatchCpuCounts == {3}

\* The connection string of the environment while operations are
\* dispatched: the variable is not set.
DispatchEnvironments == {JsAbsent}

CallerTimeouts == {JsUndefined, JsNumber(5), JsNumber(8)}

OptionsInputs == {Options(camel, lower) : camel, lower \in CallerTimeouts}

\* An options object in which the caller has set no time out.
NoTimeoutOptions == Options(JsUndefined, JsUndefined)

\* The options objects given to a storage operation: without a time out,
\* and with the caller's time out under either spelling.
DispatchOptions ==
    {NoTimeoutOptions, Options(JsNumber(5), JsUndefined),
     Options(JsUndefined, JsNumber(5))}

UpperChar(ch) ==
    IF \E i \in 1..Len(LowerCaseLetters) : LowerCaseLetters[i] = ch
    THEN UpperCaseLetters[CHOOSE i \in 1..Len(LowerCaseLetters) :
                              LowerCaseLetters[i] = ch]
    ELSE ch

\* Every spelling of a lower case word in upper and lower case letters.
RECURSIVE CaseVariants(_)
CaseVariants(w) ==
    IF w = <<>> THEN {<<>>}
    ELSE {<<h>> \o t : h \in {Head(w), UpperChar(Head(w))},
                       t \in CaseVariants(Tail(w))}

OtherTypes ==
    {<<>>, <<"f", "t", "p">>, <<"F", "T", "P">>, <<"F", "t", "p">>,
     <<"b", "l", "o">>, <<"b", "l", "o", "b", "s">>,
     <<"B", "L", "O", "B", "S">>, <<" ", "b", "l", "o", "b">>,
     <<"q", "u", "e", "u">>, <<"T", "a", "b", "l", "e", "s">>}

TypeInputs ==
    {JsAbsent} \cup
    {JsString(s) : s \in (UNION {CaseVariants(w) : w \in OperationTypes})
                         \cup OtherTypes}

OperationNames ==
    {"listContainers", "listQueues", "queryTables", "toString", "host",
     "nonexistentMethod", ""}

AllOperations ==
    {NullOperation, UndefinedOperation} \cup
    {StorageOperation(ty, name) : ty \in TypeInputs, name \in OperationNames}

OperationSamples ==
    {NullOperation,
     StorageOperation(JsString(<<"B", "L", "O", "B">>), "listContainers"),
     StorageOperation(JsString(<<"q", "u", "e", "u", "e">>), "listQueues"),
     StorageOperation(JsString(<<"T", "a", "b", "l", "e">>),
                      "nonexistentMethod"),
     StorageOperation(JsString(<<"f", "t", "p">>), "toString")}

ConnectionStrings ==
    {<<<<"AccountName", "yaotest">>, <<"AccountKey", "null">>>>,
     <<<<"AccountName", "other">>, <<"AccountKey", "k2">>>>,
     <<<<"AccountName", "yaotest">>>>,
     <<<<"AccountKey", "k2">>>>}

\* What process.env can hold: nothing, or a string.
EnvironmentValues ==
    {JsAbsent, JsString(<<>>)} \cup {JsString(s) : s \in ConnectionStrings}

\* What a caller can give as connection string.
ConnectionStringArgs == EnvironmentValues \cup {JsNullString}

FairConcurrencies == {JsString(<<"1">>), JsString(<<"2">>)}

FairOperations ==
    {StorageOperation(JsString(<<"B", "L", "O", "B">>), "listContainers"),
     StorageOperation(JsString(<<"T", "a", "b", "l", "e">>),
                      "nonexistentMethod")}

OutcomeSamples ==
    {[ok |-> TRUE, value |-> "r1"], [ok |-> FALSE, value |-> "RemoteError"]}

TipSamples == {"Looking up storage containers", "Deleting container"}

---------------------------------------------------------------------------
(* Specifications *)

\* The state when the module is loaded: nothing initialised, no call made.
Loaded ==
    /\ restFunnel = NoFunnel
    /\ operationTimeout = JsNull
    /\ pc = [c \in Calls |-> "NotStarted"]
    /\ op = [c \in Calls |-> NoOperation]
    /\ resolved = [c \in Calls |-> FALSE]
    /\ invoked = [c \in Calls |-> 0]
    /\ result = [c \in Calls |-> Pending]
    /\ optionsArg = NoOptions
    /\ options = NoOptions
    /\ callArgs = [c \in Calls |-> NoOptions]
    /\ invokedWith = [c \in Calls |-> NoOptions]
    /\ outcomeOf = [c \in Calls |-> <<>>]
    /\ phases = [c \in Calls |-> <<>>]
    /\ waited = {}
    /\ serviceCall = <<>>
    /\ progress = NoProgress
    /\ indicators = <<>>

\* Concurrent storage operations under sample configurations.
Init ==
    /\ cfg \in {Config(cc, to) : cc \in ConcurrencySamples,
                                 to \in TimeoutSamples}
    /\ cpuCount \in DispatchCpuCounts
    /\ env \in DispatchEnvironments
    /\ Loaded

Next ==
    \/ StorageUtil_init
    \/ \E c \in Calls : \E so \in OperationSamples :
          performStorageOperation(c, so, NoTimeoutOptions)
    \/ \E c \in Calls : \E outcome \in OutcomeSamples :
          MethodCompletes(c, outcome)

Spec == Init /\ [][Next]_vars

\* Configuration resolution and the operation time out, over every
\* configuration value of each key.
InitConfig ==
    /\ cfg \in {Config(cc, to) : cc \in ConfigValues, to \in TimeoutSamples}
               \cup
               {Config(cc, to) : cc \in ConcurrencySamples,
                                 to \in ConfigValues}
    /\ cpuCount \in 1..MaxCpu
    /\ env = JsAbsent
    /\ Loaded

NextConfig ==
    \/ StorageUtil_init
    \/ \E o \in OptionsInputs : setOperationTimeout(o)

SpecConfig == InitConfig /\ [][NextConfig]_vars

\* Concurrent storage operations whose service methods all end: a method
\* that has been called does not stay pending for ever.  The funnel has
\* room for one or two calls at a time.
InitFair ==
    /\ cfg \in {Config(cc, JsAbsent) : cc \in FairConcurrencies}
    /\ cpuCount \in DispatchCpuCounts
    /\ env \in DispatchEnvironments
    /\ Loaded

NextFair ==
    \/ StorageUtil_init
    \/ \E c \in Calls : \E so \in FairOperations :
          performStorageOperation(c, so, NoTimeoutOptions)
    \/ \E c \in Calls : \E outcome \in OutcomeSamples :
          MethodCompletes(c, outcome)

MethodsEnd ==
    \A c \in Calls :
        WF_vars(\E outcome \in OutcomeSamples : MethodCompletes(c, outcome))

SpecFair == InitFair /\ [][NextFair]_vars /\ MethodsEnd

\* Concurrent storage operations over every outcome of the service method,
\* with a funnel that has room for one or two calls at a time.
NextOutcomes ==
    \/ StorageUtil_init
    \/ \E c \in Calls : \E so \in FairOperations :
          performStorageOperation(c, so, NoTimeoutOptions)
    \/ \E c \in Calls : \E outcome \in MethodOutcomes :
          MethodCompletes(c, outcome)

SpecOutcomes == InitFair /\ [][NextOutcomes]_vars

\* The service factory under every environment.
InitFactory ==
    /\ cfg = Config(JsAbsent, JsAbsent)
    /\ cpuCount \in DispatchCpuCounts
    /\ env \in EnvironmentValues
    /\ Loaded

NextFactory ==
    \/ \E cs \in ConnectionStringArgs : getBlobService(cs)
    \/ \E cs \in ConnectionStringArgs : getTableService(cs)
    \/ \E cs \in ConnectionStringArgs : getQueueService(cs)
    \/ \E value \in EnvironmentValues : SetEnvironment(value)

SpecFactory == InitFactory /\ [][NextFactory]_vars

\* The progress indicator under the sample configurations.
NextProgress ==
    \/ StorageUtil_init
    \/ \E tips \in TipSamples : startProgress(tips)
    \/ endProgress

SpecProgress == Init /\ [][NextProgress]_vars

\* One storage operation at a time, over every operation type and name.
NextKinds ==
    \/ StorageUtil_init
    \/ \E so \in AllOperations : \E o \in DispatchOptions :
          performStorageOperation(1, so, o)
    \/ \E outcome \in MethodOutcomes : MethodCompletes(1, outcome)

SpecKinds == Init /\ [][NextKinds]_vars

---------------------------------------------------------------------------
(* Properties *)

Executing == {c \in Calls : pc[c] = "Executing"}
Waiting == {c \in Calls : pc[c] = "AwaitingSlot"}
MethodFailed ==
    {c \in Calls : pc[c] = "Failed" /\ result[c].error.name = "RemoteError"}

\* C1: with the funnel created by init for N = getRestConcurrency(cfg), the
\* number of calls whose service method has been invoked and has not ended
\* is at most N, whatever the types of the operations.
C1_AtMostNExecuting ==
    restFunnel.created /\ Executing # {}
        => Cardinality(Executing) <= restFunnel.max

\* What holds of the code for C1: a funnel with a positive N never has more
\* than N calls executing.
C1_BoundedWhenPositive ==
    restFunnel.created /\ restFunnel.max >= 1
        => Cardinality(Executing) <= restFunnel.max

\* C2: a call whose service method fails gives its slot back as a call that
\* succeeds does.  On the step in which a call fails, the slots the funnel
\* counts as taken are those of the calls executing; and once N calls
\* have failed in their method and none is executing, a call that passes
\* validation is started at once and its method invoked.
C2_FailureFreesSlot ==
    [][\A c \in Calls :
          /\ (pc[c] # "Failed" /\ pc'[c] = "Failed"
              /\ restFunnel.max >= 1)
                => restFunnel'.active = Cardinality({d \in Calls :
                                                       pc'[d] = "Executing"})
          /\ (pc[c] = "NotStarted"
              /\ pc'[c] \in {"AwaitingSlot", "Executing"}
              /\ Cardinality(MethodFailed) >= restFunnel.max
              /\ Executing = {})
                => pc'[c] = "Executing" /\ invoked'[c] = 1]_vars

\* C2 witness: N >= 1 calls have failed in their method under a funnel of N
\* slots and another call is executing.
C2_Witness ==
    /\ restFunnel.created
    /\ restFunnel.max >= 1
    /\ Cardinality(MethodFailed) >= restFunnel.max
    /\ \E c \in Calls : pc[c] = "Executing" /\ invoked[c] = 1

\* C3: setOperationTimeout never overwrites a time out the caller supplied:
\* options that carry timeoutIntervalInMs keep its value.
C3_CallerTimeoutKept ==
    \A i \in 1..Len(options) :
        optionsArg[i].timeoutIntervalInMs # JsUndefined
            => options[i].timeoutIntervalInMs
                   = optionsArg[i].timeoutIntervalInMs

\* A step that is a call of setOperationTimeout whose argument or outcome
\* differs from the call before.
TimeoutCallStep == <<optionsArg', options'>> # <<optionsArg, options>>

\* C4: for options without a timeoutIntervalInMs field, setOperationTimeout
\* sets the field to the configured override T when there is one, and leaves
\* the options unchanged when operationTimeout is null.
C4_OverrideInjected ==
    [][TimeoutCallStep /\ optionsArg'[1].timeoutIntervalInMs = JsUndefined
         => IF operationTimeout = JsNull
            THEN options'[1] = optionsArg'[1]
            ELSE options'[1].timeoutIntervalInMs = operationTimeout]_vars

\* What holds of the code for C4: the override is set when the options carry
\* the time out under neither spelling.
C4_InjectedWhenNeitherSpelling ==
    [][TimeoutCallStep
       /\ optionsArg'[1] = Options(JsUndefined, JsUndefined)
         => IF operationTimeout = JsNull
            THEN options'[1] = optionsArg'[1]
            ELSE options'[1].timeoutIntervalInMs = operationTimeout]_vars

\* C5: the concurrency limit init gives to the funnel is at least 1, for
\* every configuration value and every cpu count >= 1.
C5_LimitAtLeastOne ==
    restFunnel.created => restFunnel.max >= 1

\* C6: getRestConcurrency returns the configured integer when the value
\* parses to a positive integer and cpuCount x 1 when the value is absent,
\* does not parse as a number or parses to zero (unset -> cpuCount,
\* "0" -> cpuCount, "8" -> 8).
C6_ConcurrencyResolution ==
    restFunnel.created =>
        LET value == cfg.azure_storage_concurrency
            parsed == parseInt10(value)
        IN /\ parsed.tag = "number" /\ parsed.val > 0
                => restFunnel.max = parsed.val
           /\ parsed.tag = "NaN" \/ parsed.val = 0
                => restFunnel.max = cpuCount * 1
           /\ value = JsAbsent => restFunnel.max = cpuCount
           /\ value = JsString(<<"a">>) => restFunnel.max = cpuCount
           /\ value = JsString(<<"0">>) => restFunnel.max = cpuCount
           /\ value \in {JsString(<<"8">>), JsString(<<" ", "8">>),
                         JsString(<<"8", "a">>), JsString(<<"0", "8">>)}
                => restFunnel.max = 8
           /\ value = JsString(<<"8", "8">>) => restFunnel.max = 88

\* C6 witness: the value "0" with 4 cpus resolved to 4.
C6_Witness ==
    /\ restFunnel.created
    /\ cfg.azure_storage_concurrency = JsString(<<"0">>)
    /\ cpuCount = 4
    /\ restFunnel.max = 4

\* C7: getRestOperationTimeout returns null when the value is absent, not a
\* number or parses to an integer <= 0, and the parsed positive integer
\* otherwise; operationTimeout is always null or a positive integer.
C7_TimeoutResolution ==
    /\ operationTimeout = JsNull
         \/ (operationTimeout.tag = "number" /\ operationTimeout.val > 0)
    /\ restFunnel.created =>
        LET value == cfg.azure_storage_timeout
            parsed == parseInt10(value)
        IN /\ parsed.tag = "NaN" \/ parsed.val <= 0
                => operationTimeout = JsNull
           /\ parsed.tag = "number" /\ parsed.val > 0
                => operationTimeout = JsNumber(parsed.val)
           /\ value \in {JsAbsent, JsString(<<"a">>), JsString(<<"0">>),
                         JsString(<<"-", "8">>)}
                => operationTimeout = JsNull
           /\ value \in {JsString(<<"8">>), JsString(<<" ", "8">>),
                         JsString(<<"8", "a">>), JsString(<<"0", "8">>)}
                => operationTimeout = JsNumber(8)

\* C7 witness: the value "-8" resolved to null.
C7_Witness ==
    /\ restFunnel.created
    /\ cfg.azure_storage_timeout = JsString(<<"-", "8">>)
    /\ operationTimeout = JsNull

\* The type string is blob, queue or table in some mix of cases.
IsKnownKind(s) == \E w \in OperationTypes : s \in CaseVariants(w)

Dispatched(c) == pc[c] # "NotStarted" /\ op[c].tag = "object"

\* C8 as stated: a service handle is resolved exactly when the type string
\* is blob, queue or table in any mix of cases; any other string fails with
\* the invalid operation type error carrying the string that was given.
C8_KindCarriedAsGiven ==
    \A c \in Calls :
        Dispatched(c) /\ op[c].type.tag = "string" =>
            IF IsKnownKind(op[c].type.str)
            THEN resolved[c]
                 /\ result[c].error.name # "Invalid azure operation type"
            ELSE ~resolved[c]
                 /\ result[c] = Thrown(InvalidOperationType(op[c].type.str))

\* C8 amended: a service handle is resolved exactly when the type string is
\* blob, queue or table in any mix of cases; any other string fails with
\* the invalid operation type error carrying the string in lower case.
C8_KindCarriedLowerCase ==
    \A c \in Calls :
        Dispatched(c) /\ op[c].type.tag = "string" =>
            IF IsKnownKind(op[c].type.str)
            THEN resolved[c]
                 /\ result[c].error.name # "Invalid azure operation type"
            ELSE ~resolved[c]
                 /\ pc[c] = "Failed"
                 /\ result[c] = Thrown(InvalidOperationType(
                        [i \in 1..Len(op[c].type.str) |->
                            LowerChar(op[c].type.str[i])]))

\* C8 witness: the type "FTP" has failed with an error carrying "ftp".
C8_Witness ==
    \E c \in Calls :
        /\ op[c].tag = "object"
        /\ op[c].type = JsString(<<"F", "T", "P">>)
        /\ pc[c] = "Failed"
        /\ result[c] = Thrown(InvalidOperationType(<<"f", "t", "p">>))

\* C9: with a valid type, an operation name that is missing from the service
\* or names a member that is not a function fails with the invalid operation
\* error carrying the name and the lower case type, and no method is invoked
\* ("BLOB" with "nonexistentMethod" fails naming "nonexistentMethod" and
\* "blob").
C9_InvalidOperationRejected ==
    \A c \in Calls :
        Dispatched(c) /\ op[c].type.tag = "string"
        /\ IsKnownKind(op[c].type.str) =>
            LET type == [i \in 1..Len(op[c].type.str) |->
                            LowerChar(op[c].type.str[i])]
            IN /\ TypeOfMember(type, op[c].operation) # "function"
                    => /\ pc[c] = "Failed"
                       /\ invoked[c] = 0
                       /\ result[c] = Thrown(InvalidOperation(
                                                op[c].operation, type))
               /\ (op[c].type.str = <<"B", "L", "O", "B">>
                   /\ op[c].operation = "nonexistentMethod")
                    => result[c] = Thrown(InvalidOperation(
                           "nonexistentMethod", <<"b", "l", "o", "b">>))

\* C9 witness: "BLOB" with "nonexistentMethod" has failed without any
\* invocation.
C9_Witness ==
    \E c \in Calls :
        /\ op[c] = StorageOperation(JsString(<<"B", "L", "O", "B">>),
                                    "nonexistentMethod")
        /\ pc[c] = "Failed"
        /\ invoked[c] = 0

\* C10: performStorageOperation with a null operation does nothing: it
\* returns undefined, raises no error, creates no service, enters no funnel
\* and invokes no method; the funnel and the other calls stay as they were.
C10_NullOperationIsNoOp ==
    [][\A c \in Calls :
          (pc[c] = "NotStarted" /\ pc'[c] # "NotStarted"
           /\ op'[c] = NullOperation)
            => /\ pc'[c] = "Returned"
               /\ result'[c] = Returned("undefined")
               /\ resolved'[c] = FALSE
               /\ invoked' = invoked
               /\ restFunnel' = restFunnel
               /\ \A d \in Calls \ {c} : pc'[d] = pc[d]]_vars

\* C10 witness: a null operation has returned while another call holds a
\* slot of the funnel.
C10_Witness ==
    \E c \in Calls :
        /\ op[c] = NullOperation
        /\ pc[c] = "Returned"
        /\ invoked[c] = 0
        /\ Executing # {}
        /\ restFunnel.active >= 1

---------------------------------------------------------------------------
(* C11 *)

ExplicitGiven(sc) == ~IsNoString(sc.connectionString)
EnvironmentGiven(sc) == ~IsNoString(sc.environment)

\* C11: a service is made from the connection string it is given when that
\* is a non-empty string, and then the environment is not read; otherwise
\* from the environment's connection string when that is set and non-empty;
\* otherwise there are no settings and the service is made, with success,
\* with the default credentials.
C11_SettingsPrecedence ==
    \A i \in 1..Len(serviceCall) :
        LET sc == serviceCall[i]
        IN /\ ExplicitGiven(sc) =>
                 /\ sc.settings =
                        createFromConnectionString(sc.connectionString.str)
                 /\ ~sc.envRead
           /\ ~ExplicitGiven(sc) /\ EnvironmentGiven(sc) =>
                 sc.settings = createFromConnectionString(sc.environment.str)
           /\ ~ExplicitGiven(sc) /\ ~EnvironmentGiven(sc) =>
                 /\ sc.settings = NoSettings
                 /\ sc.service = "default credentials"

\* A service was asked for with a connection string while the environment
\* held another account's, and it uses the account of the one given.
C11_Witness ==
    \E i \in 1..Len(serviceCall) :
        LET sc == serviceCall[i]
        IN /\ ExplicitGiven(sc) /\ EnvironmentGiven(sc)
           /\ sc.settings.tag = "settings"
           /\ createFromConnectionString(sc.environment.str).tag = "settings"
           /\ createFromConnectionString(sc.environment.str) # sc.settings
           /\ sc.service = "account credentials"

---------------------------------------------------------------------------
(* C12 *)

\* The service method of call c has ended with outcome o.
MethodEnded(c, o) == outcomeOf[c] = <<o>>

\* C12: the caller of a storage operation that got to its service method
\* gets what the method gave: the value it returned, unchanged, or the
\* error it failed with, unchanged; and nothing before the method ends.
C12_OutcomePassedThrough ==
    \A c \in Calls :
        /\ \A o \in MethodOutcomes :
               MethodEnded(c, o) =>
                   /\ o.ok => /\ result[c].state = "returned"
                              /\ result[c].value = o.value
                   /\ ~o.ok => /\ result[c].state = "thrown"
                               /\ result[c].error = RemoteError(o.value)
        /\ (invoked[c] > 0 /\ outcomeOf[c] = <<>>) => result[c] = Pending
        /\ (pc[c] = "Completed" \/ c \in MethodFailed) =>
               outcomeOf[c] # <<>>

\* Two calls have returned the different values their methods returned and
\* a third has failed with its method's error.
C12_Witness ==
    \E c, d, e \in Calls :
        /\ pc[c] = "Completed" /\ MethodEnded(c, [ok |-> TRUE, value |-> "r1"])
        /\ pc[d] = "Completed" /\ MethodEnded(d, [ok |-> TRUE, value |-> "r2"])
        /\ pc[e] = "Failed" /\ invoked[e] = 1
        /\ result[e] = Thrown(RemoteError("RemoteError"))

---------------------------------------------------------------------------
(* C13 *)

\* C13: when every service method that is called ends, a call that waits
\* for the funnel is started later on, and ends later on, with the value or
\* the error of its method, however many calls there are.
C13_WaitersAdmitted ==
    \A c \in Calls :
        /\ (pc[c] = "AwaitingSlot") ~> (pc[c] = "Executing")
        /\ (pc[c] = "AwaitingSlot") ~> (pc[c] \in {"Completed", "Failed"})

\* A call that the funnel had queued has ended.
C13_Witness ==
    \E c \in waited : pc[c] \in {"Completed", "Failed"} /\ invoked[c] = 1

---------------------------------------------------------------------------
(* C14 *)

\* Call c has had its service method called with some options.
MethodGiven(c) == invoked[c] > 0 /\ invokedWith[c] # NoOptions

---------------------------------------------------------------------------
(* C15 *)

Terminal == {"Completed", "Failed"}

\* The beginnings of PhaseOrder, and those followed by the end of the
\* call: Failed after any phase, Completed after Executing.
PhaseSequences ==
    {SubSeq(PhaseOrder, 1, k) : k \in 0..Len(PhaseOrder)}
    \cup {Append(SubSeq(PhaseOrder, 1, k), "Failed") :
              k \in 1..Len(PhaseOrder)}
    \cup {Append(PhaseOrder, "Completed")}

InPhaseOrder(s) == s \in PhaseSequences

IsPrefix(s, t) == Len(s) <= Len(t) /\ s = SubSeq(t, 1, Len(s))

\* The type and the operation name of call c are those of a method of one
\* of the three services.
MethodValidated(c) ==
    /\ op[c].tag = "object"
    /\ IsKnownKind(toLowerCase(op[c].type.str))
    /\ TypeOfMember(toLowerCase(op[c].type.str), op[c].operation)
           = "function"

PhasesInOrder ==
    \A c \in Calls :
        /\ InPhaseOrder(phases[c])
        /\ invoked[c] > 0 =>
               /\ MethodValidated(c)
               /\ IsPrefix(PhaseOrder, phases[c])
        /\ IsPrefix(PhaseOrder, phases[c]) => invoked[c] > 0

PhasesOnlyGrow ==
    \A c \in Calls :
        /\ IsPrefix(phases[c], phases'[c])
        /\ (phases[c] # <<>> /\ phases[c][Len(phases[c])] \in Terminal) =>
               phases'[c] = phases[c]

\* C15: a storage operation that is not null goes through Validating,
\* Resolving-Service, Binding-Method, Awaiting-Slot and Executing in that
\* order and then ends Completed or Failed (or ends Failed from a phase
\* before Executing); its phases are never left for an earlier one; and the
\* service method is called only when type and operation name have been
\* validated and the funnel has let the call in.
C15_PhasesInOrder == []PhasesInOrder /\ [][PhasesOnlyGrow]_vars

\* A call has gone through all the phases, having been queued by the
\* funnel, and has ended; another has failed in Resolving-Service.
C15_Witness ==
    \E c \in waited : \E d \in Calls :
        /\ phases[c] = Append(PhaseOrder, "Completed")
        /\ phases[d] = <<"Validating", "ResolvingService", "Failed">>

---------------------------------------------------------------------------
(* C16 *)

\* The step in which the service method of call c ends and the funnel gets
\* its slot back.
ReleaseStep(c) == pc[c] = "Executing" /\ pc'[c] \in Terminal

\* The calls that wait before the step and are started by it.
Resumed ==
    {d \in Waiting : pc'[d] = "Executing" /\ invoked'[d] = invoked[d] + 1}

\* C16: when the service method of a call ends while one or more calls wait
\* for the funnel, that end starts exactly one of them: one call fewer
\* waits after it, and the others go on waiting.
C16_OneWaiterPerRelease ==
    [][\A c \in Calls :
           (ReleaseStep(c) /\ Waiting # {}) =>
               /\ Cardinality(Resumed) = 1
               /\ Waiting' = Waiting \ Resumed
               /\ Cardinality(Waiting') = Cardinality(Waiting) - 1]_vars

\* A call that the funnel had queued has been started by the end of
\* another call's method, and a third call still waits.
C16_Witness ==
    \E c \in waited : \E d, e \in Calls :
        /\ pc[c] = "Executing"
        /\ outcomeOf[d] # <<>>
        /\ pc[e] = "AwaitingSlot"

---------------------------------------------------------------------------
(* C17 *)

\* The step in which call c runs performStorageOperation up to the funnel.
StartStep(c) == pc[c] = "NotStarted" /\ pc'[c] # "NotStarted"

\* A storage operation whose type is none of the three services', or whose
\* operation name is no method of the service of its type.
InvalidRequest(so) ==
    /\ so.tag = "object"
    /\ \/ ~IsKnownKind(toLowerCase(so.type.str))
       \/ TypeOfMember(toLowerCase(so.type.str), so.operation) # "function"

\* C17: a storage operation with a bad type or a bad operation name fails
\* without the funnel being touched: the funnel's count and queue, the calls
\* that execute and the calls that wait are as before, and no service
\* method is called.
C17_InvalidLeavesGateAlone ==
    [][\A c \in Calls :
           (StartStep(c) /\ InvalidRequest(op'[c])) =>
               /\ pc'[c] = "Failed"
               /\ result'[c].state = "thrown"
               /\ restFunnel' = restFunnel
               /\ invoked' = invoked
               /\ Executing' = Executing
               /\ Waiting' = Waiting
               /\ waited' = waited]_vars

\* A storage operation has failed for its type; one call executes and one
\* waits for the funnel.
C17_Witness ==
    \E c \in Calls :
        /\ InvalidRequest(op[c])
        /\ pc[c] = "Failed" /\ invoked[c] = 0
        /\ result[c].error.name = "Invalid azure operation type"
        /\ Executing # {} /\ Waiting # {}
        /\ restFunnel.active = 1

---------------------------------------------------------------------------
(* C18 *)

\* The funnel has started call c.
Admitted(c) == \E i \in 1..Len(phases[c]) : phases[c][i] = "Executing"

InvokedAtMostOnce ==
    \A c \in Calls :
        /\ invoked[c] <= 1
        /\ Admitted(c) <=> invoked[c] = 1
        /\ (pc[c] = "Completed" \/ c \in MethodFailed) => invoked[c] = 1

NotInvokedAgain ==
    \A c \in Calls : outcomeOf[c] # <<>> => invoked'[c] = invoked[c]

\* C18: the service method of a storage operation is called once at most:
\* exactly once when the operation is valid and the funnel has started it,
\* never otherwise, and not again once it has ended, with success or with
\* an error.
C18_NoRetry == []InvokedAtMostOnce /\ [][NotInvokedAgain]_vars

\* The method of a call has failed, the call has ended with its error, and
\* the method was called once.
C18_Witness ==
    \E c \in MethodFailed :
        /\ outcomeOf[c] = <<[ok |-> FALSE, value |-> "RemoteError"]>>
        /\ invoked[c] = 1
        /\ \E d \in Calls \ {c} : pc[d] = "Completed" /\ invoked[d] = 1

---------------------------------------------------------------------------
(* C19 *)

\* The funnel's count is the number of calls that execute, no call waits
\* while the funnel has room, the queue holds the calls that wait, and the
\* count is 0 when no call is under way.
GateAccounting ==
    /\ restFunnel.active = Cardinality(Executing)
    /\ Waiting # {} => restFunnel.active >= restFunnel.max
    /\ Waiting = {restFunnel.queue[i] : i \in 1..Len(restFunnel.queue)}
    /\ (\A c \in Calls : pc[c] \notin {"AwaitingSlot", "Executing"}) =>
           restFunnel.active = 0

\* C19: with the funnel created by init for N = getRestConcurrency(cfg),
\* the funnel's count of calls in flight is the number of calls that
\* execute and lies between 0 and N; no call waits while the count is below
\* N; and the count is 0 once every call has ended.
C19_GateAccounting ==
    restFunnel.created =>
        /\ GateAccounting
        /\ 0 <= restFunnel.active
        /\ restFunnel.active <= getRestConcurrency(cfg, cpuCount)

\* The accounting of C19 for the configurations with N >= 1.
C19_AccountingWhenPositive ==
    (restFunnel.created /\ getRestConcurrency(cfg, cpuCount) >= 1) =>
        C19_GateAccounting

---------------------------------------------------------------------------
(* C20 *)

\* The indicators that were created and not ended.
ActiveIndicators ==
    {i \in 1..Len(indicators) : indicators[i].ended = 0}

OneIndicator ==
    /\ Cardinality(ActiveIndicators) <= 1
    /\ \A i \in 1..Len(indicators) : indicators[i].ended <= 1
    /\ progress # NoProgress => ActiveIndicators = {progress}
    /\ progress = NoProgress => ActiveIndicators = {}

\* A step of startProgress ends the indicator that was active, if any,
\* and the new indicator is the active one; a step with no indicator
\* active and none created ends nothing.
IndicatorStep ==
    /\ Len(indicators') > Len(indicators) =>
           /\ \A i \in ActiveIndicators : indicators'[i].ended = 1
           /\ progress' = Len(indicators')
           /\ ActiveIndicators' = {progress'}
    /\ (progress = NoProgress /\ Len(indicators') = Len(indicators)) =>
           indicators' = indicators /\ progress' = NoProgress

\* C20: after any calls of startProgress and endProgress at most one
\* progress indicator is active; startProgress ends the active one, if
\* any, before it creates the new one; endProgress with no active indicator
\* does nothing; and every indicator is ended at most once.
C20_OneProgressIndicator == []OneIndicator /\ [][IndicatorStep]_vars

\* startProgress has been called while an indicator was active: the first
\* indicator has been ended once and the second is the active one.
C20_Witness ==
    /\ Len(indicators) >= 2
    /\ indicators[1].ended = 1
    /\ progress = 2
    /\ ActiveIndicators = {2}

====
